---- MODULE Spec2Model ----
(***************************************************************************)
(* Model of stock_analysis.py: compare_stock_data (the entry point),       *)
(* load_and_prepare_data (the loader) and create_comparison_chart (the     *)
(* renderer).  One run of one call is modelled; the caller either invokes  *)
(* the entry point or invokes the renderer directly.                       *)
(*                                                                         *)
(* String values of the source are written in ASCII:                       *)
(*   period_type  "周线" -> "weekly", "日线" -> "daily"                     *)
(*   type         "处理前" -> "RAW",   "处理后" -> "PROCESSED"              *)
(*   name         "处理后数据" -> "processed", "处理前数据" -> "unprocessed" *)
(***************************************************************************)
EXTENDS Integers, Sequences, FiniteSets, TLC

VARIABLES call, stock_code, period_type, output_file, present,
          df_processed, df_unprocessed, df_combined,
          chart, err, io, stdout, calls, pc

vars == <<call, stock_code, period_type, output_file, present,
          df_processed, df_unprocessed, df_combined,
          chart, err, io, stdout, calls, pc>>

----------------------------------------------------------------------------
(* Bounds and input sets *)

\* Number of data rows in one CSV file.
MaxRows == 2

Codes == {1, 2}
\* The closing price quoted in a row: one price per trade_date cell.
Quote(d) ==
    CASE d = "2024-01-01" -> 10
      [] d = "2024-01-08" -> 11
      [] OTHER -> 12
DateStrings == {"2024-01-01", "2024-01-08", "bad"}
Periods == {"weekly", "daily", "monthly"}

\* Tables handed to create_comparison_chart when the caller invokes it directly.
InputTables ==
    { <<>>,
      <<[trade_date |-> 20240101, close |-> 10, type |-> "RAW"]>>,
      <<[trade_date |-> 20240101, close |-> 10, type |-> "RAW"],
        [trade_date |-> 20240101, close |-> 10, type |-> "PROCESSED"]>> }

----------------------------------------------------------------------------
(* Values *)

required_columns == <<"stock_code", "trade_date", "close">>

AllColumns == {required_columns[i] : i \in 1..Len(required_columns)}

ColumnSets == SUBSET AllColumns

FullRows ==
    {[stock_code |-> c, trade_date |-> d, close |-> Quote(d)] : c \in Codes, d \in DateStrings}

NoFrame == [columns |-> {}, rows |-> <<>>]

\* A parsed CSV file.  Rows are read only when every required column is there
\* (the column check comes first), so a table that lacks a column is modelled
\* by its header alone.
Frame(cols, rows) == [columns |-> cols, rows |-> IF cols = AllColumns THEN rows ELSE <<>>]

NoError == [cls |-> "None", site |-> "", name |-> "", stock_code |-> 0, missing |-> <<>>]

Error(cls, site, name, code, missing) ==
    [cls |-> cls, site |-> site, name |-> name, stock_code |-> code, missing |-> missing]

Path(name) == [name |-> name, stock_code |-> 0, period_type |-> ""]

None == Path("<None>")

OutputFiles == {None, Path(""), Path("out.json")}

processed_file == Path("processed.csv")

unprocessed_file == Path("unprocessed.csv")

\* f'stock_{stock_code}_{period_type}_comparison_chart.json'
AutoOutputFile(code, period) ==
    [name |-> "stock_{}_{}_comparison_chart.json", stock_code |-> code, period_type |-> period]

NoChart == [data |-> <<>>, stock_code |-> 0, period_type |-> "",
            layers |-> <<>>, interactive |-> FALSE]

IoEvent(op, path) == [op |-> op, path |-> path]

Message(text, code, period, path) ==
    [text |-> text, stock_code |-> code, period_type |-> period, path |-> path]

----------------------------------------------------------------------------
(* load_and_prepare_data: the pure steps *)

\* pd.to_datetime on one cell: the strings that parse, and the date they give
\* (as the integer yyyymmdd).
Parseable(s) == s \in {"2024-01-01", "2024-01-08"}

ParseDate(s) ==
    CASE s = "2024-01-01" -> 20240101
      [] s = "2024-01-08" -> 20240108

\* The class each raise site raises: the period check (line 168), the
\* os.path.exists checks (35, 37), the column check (48), the emptiness checks
\* (56, 58) and pd.to_datetime (61, 62; a subclass of ValueError).
ErrorClass(site) ==
    CASE site = "period" -> "ValueError"
      [] site = "file" -> "FileNotFoundError"
      [] site = "columns" -> "ValueError"
      [] site = "stock" -> "ValueError"
      [] site = "date" -> "ParserError"

\* os.path.exists tests, in order; the first missing file raises.
ExistsChecksOnlyProcessed(p) ==
    IF ~p["processed"] THEN <<"processed">> ELSE <<>>

ExistsChecks(p) ==
    IF ~p["processed"] THEN <<"processed">>
    ELSE IF ~p["unprocessed"] THEN <<"unprocessed">>
    ELSE <<>>

\* missing_cols = [col for col in required_columns if col not in df.columns]
MissingColsFirstOnly(df) ==
    LET m == SelectSeq(required_columns, LAMBDA c : c \notin df.columns)
    IN  IF m = <<>> THEN <<>> ELSE <<m[1]>>

MissingCols(df) == SelectSeq(required_columns, LAMBDA c : c \notin df.columns)

\* df[df['stock_code'] == stock_code]
FilterStock(df, code) == SelectSeq(df.rows, LAMBDA r : r.stock_code = code)

\* if df_proc_stock.empty: raise ...; if df_unproc_stock.empty: raise ...
\* The name of the first empty frame, or "".
EmptyStockOnlyProcessed(proc, unproc) ==
    IF proc = <<>> THEN "processed" ELSE ""

EmptyStockBoth(proc, unproc) ==
    IF proc = <<>> /\ unproc = <<>> THEN "processed" ELSE ""

EmptyStock(proc, unproc) ==
    IF proc = <<>> THEN "processed"
    ELSE IF unproc = <<>> THEN "unprocessed"
    ELSE ""

\* pd.to_datetime over the trade_date column of a filtered frame: it raises on
\* a cell that does not parse (errors='raise' is the default), and otherwise
\* replaces every cell by its date.
ToDatetimeCoerce(rows) ==
    LET kept == SelectSeq(rows, LAMBDA r : Parseable(r.trade_date))
    IN  [raised |-> FALSE,
         rows |-> [i \in 1..Len(kept) |->
                      [kept[i] EXCEPT !.trade_date = ParseDate(kept[i].trade_date)]]]

ToDatetime(rows) ==
    IF \A i \in 1..Len(rows) : Parseable(rows[i].trade_date)
    THEN [raised |-> FALSE,
          rows |-> [i \in 1..Len(rows) |->
                       [rows[i] EXCEPT !.trade_date = ParseDate(rows[i].trade_date)]]]
    ELSE [raised |-> TRUE, rows |-> <<>>]

RECURSIVE InsertByDate(_, _)
InsertByDate(r, s) ==
    IF s = <<>> THEN <<r>>
    ELSE IF r.trade_date <= Head(s).trade_date THEN <<r>> \o s
    ELSE <<Head(s)>> \o InsertByDate(r, Tail(s))

RECURSIVE SortByDate(_)
SortByDate(s) == IF s = <<>> THEN <<>> ELSE InsertByDate(Head(s), SortByDate(Tail(s)))

\* df['type'] = tag, then df[['trade_date', 'close', 'type']]
PlotRowsSorted(rows, tag) ==
    SortByDate([i \in 1..Len(rows) |->
                   [trade_date |-> rows[i].trade_date, close |-> rows[i].close, type |-> tag]])

PlotRows(rows, tag) ==
    [i \in 1..Len(rows) |->
        [trade_date |-> rows[i].trade_date, close |-> rows[i].close, type |-> tag]]

\* pd.concat([df_unproc_plot, df_proc_plot], ignore_index=True)
ConcatProcessedFirst(df_unproc_plot, df_proc_plot) == df_proc_plot \o df_unproc_plot

Concat(df_unproc_plot, df_proc_plot) == df_unproc_plot \o df_proc_plot

\* except Exception as e: print(...); raise
\* Where control goes after the loader: on to the renderer, or out of the
\* entry point with the exception re-raised.
HandlerSwallows(ok) == "render"

AfterLoad(ok) == IF ok THEN "render" ELSE "raised"

\* Lines 43-75 on the two frames read: the error raised, or NoError and the
\* table returned.
LoadOutcome(dp, du, code) ==
    IF MissingCols(dp) # <<>>
    THEN [err |-> Error(ErrorClass("columns"), "columns", "processed", 0, MissingCols(dp)), table |-> <<>>]
    ELSE IF MissingCols(du) # <<>>
    THEN [err |-> Error(ErrorClass("columns"), "columns", "unprocessed", 0, MissingCols(du)), table |-> <<>>]
    ELSE
    LET df_proc_stock == FilterStock(dp, code)
        df_unproc_stock == FilterStock(du, code)
        empty == EmptyStock(df_proc_stock, df_unproc_stock)
    IN  IF empty # ""
        THEN [err |-> Error(ErrorClass("stock"), "stock", empty, code, <<>>), table |-> <<>>]
        ELSE
        LET proc_dated == ToDatetime(df_proc_stock)
            unproc_dated == ToDatetime(df_unproc_stock)
        IN  IF proc_dated.raised
            THEN [err |-> Error(ErrorClass("date"), "date", "processed", 0, <<>>), table |-> <<>>]
            ELSE IF unproc_dated.raised
            THEN [err |-> Error(ErrorClass("date"), "date", "unprocessed", 0, <<>>), table |-> <<>>]
            ELSE [err |-> NoError,
                  table |-> Concat(PlotRows(unproc_dated.rows, "RAW"),
                                   PlotRows(proc_dated.rows, "PROCESSED"))]

----------------------------------------------------------------------------
(* compare_stock_data and create_comparison_chart: the pure steps *)

\* if period_type not in ["周线", "日线"]: raise ValueError
AnyPeriodValid == Periods

ValidPeriods == {"weekly", "daily"}

\* if output_file:   (None and the empty string are falsy)
AlwaysSaves(out) == TRUE

ShouldSave(out) == out # None /\ out # Path("")

\* The chart: two layers over one encoding of the table, titled with the stock
\* code and the period, made interactive.
Chart(table, code, period) ==
    [data |-> table, stock_code |-> code, period_type |-> period,
     layers |-> <<"line", "point">>, interactive |-> TRUE]

----------------------------------------------------------------------------
(* The run *)

Init ==
    /\ call \in {"compare_stock_data", "create_comparison_chart"}
    /\ stock_code \in Codes
    /\ period_type \in Periods
    /\ output_file \in OutputFiles
    /\ IF call = "compare_stock_data"
       THEN /\ present \in [{"processed", "unprocessed"} -> BOOLEAN]
            /\ df_combined = <<>>
            /\ pc = "validate"
       ELSE /\ present = [f \in {"processed", "unprocessed"} |-> TRUE]
            /\ df_combined \in InputTables
            /\ pc = "render"
    /\ df_processed = NoFrame
    /\ df_unprocessed = NoFrame
    /\ chart = NoChart
    /\ err = NoError
    /\ io = <<>>
    /\ stdout = <<>>
    /\ calls = <<call>>

\* compare_stock_data, lines 166-182: the period check, the default output
\* file, the opening message, and the call of the loader.
ValidatePeriod ==
    /\ pc = "validate"
    /\ IF period_type \notin ValidPeriods
       THEN /\ err' = Error(ErrorClass("period"), "period", "", 0, <<>>)
            /\ pc' = "raised"
            /\ UNCHANGED <<output_file, stdout, calls>>
       ELSE /\ output_file' = IF output_file = None
                               THEN AutoOutputFile(stock_code, period_type)
                               ELSE output_file
            /\ stdout' = Append(stdout, Message("start", stock_code, period_type, None))
            /\ calls' = Append(calls, "load_and_prepare_data")
            /\ pc' = "exists"
            /\ UNCHANGED err
    /\ UNCHANGED <<call, stock_code, period_type, present, df_processed,
                   df_unprocessed, df_combined, chart, io>>

\* load_and_prepare_data, lines 33-37 (and the handler, 77-79).
CheckFilesExist ==
    /\ pc = "exists"
    /\ LET missing == ExistsChecks(present)
           checked == IF present["processed"]
                      THEN <<IoEvent("exists", processed_file),
                             IoEvent("exists", unprocessed_file)>>
                      ELSE <<IoEvent("exists", processed_file)>>
       IN  /\ io' = io \o checked
           /\ IF missing # <<>>
              THEN /\ err' = Error(ErrorClass("file"), "file", missing[1], 0, <<>>)
                   /\ stdout' = Append(stdout, Message("error", 0, "", None))
                   /\ pc' = AfterLoad(FALSE)
              ELSE /\ pc' = "read"
                   /\ UNCHANGED <<err, stdout>>
    /\ UNCHANGED <<call, stock_code, period_type, output_file, present,
                   df_processed, df_unprocessed, df_combined, chart, calls>>

\* load_and_prepare_data, lines 39-75 (and the handler, 77-79): the two files
\* are read, their content being whatever the files hold, and the frames are
\* checked, filtered, dated, tagged and concatenated.
ReadAndPrepare ==
    /\ pc = "read"
    /\ \E cp \in ColumnSets, cu \in ColumnSets :
         \E np \in 0..(IF cp = AllColumns THEN MaxRows ELSE 0) :
           \E nu \in 0..(IF cu = AllColumns THEN MaxRows ELSE 0) :
             \E rp \in [1..np -> FullRows], ru \in [1..nu -> FullRows] :
               LET out == LoadOutcome(Frame(cp, rp), Frame(cu, ru), stock_code)
               IN  /\ df_processed' = Frame(cp, rp)
                   /\ df_unprocessed' = Frame(cu, ru)
                   /\ err' = out.err
                   /\ df_combined' = out.table
                   /\ stdout' = IF out.err = NoError THEN stdout
                                 ELSE Append(stdout, Message("error", 0, "", None))
                   /\ pc' = AfterLoad(out.err = NoError)
    /\ io' = io \o <<IoEvent("read", processed_file), IoEvent("read", unprocessed_file)>>
    /\ UNCHANGED <<call, stock_code, period_type, output_file, present, chart, calls>>

\* create_comparison_chart, lines 107-135.
CreateComparisonChart ==
    /\ pc = "render"
    /\ calls' = IF call = "create_comparison_chart" THEN calls
                ELSE Append(calls, "create_comparison_chart")
    /\ chart' = Chart(df_combined, stock_code, period_type)
    /\ IF ShouldSave(output_file)
       THEN /\ io' = Append(io, IoEvent("write", output_file))
            /\ stdout' = Append(stdout, Message("saved", 0, "", output_file))
       ELSE UNCHANGED <<io, stdout>>
    /\ pc' = IF call = "create_comparison_chart" THEN "returned" ELSE "finish"
    /\ UNCHANGED <<call, stock_code, period_type, output_file, present,
                   df_processed, df_unprocessed, df_combined, err>>

\* compare_stock_data, lines 192-193.
CompareFinish ==
    /\ pc = "finish"
    /\ stdout' = Append(stdout, Message("done", stock_code, period_type, None))
    /\ pc' = "returned"
    /\ UNCHANGED <<call, stock_code, period_type, output_file, present,
                   df_processed, df_unprocessed, df_combined, chart, err, io, calls>>

Next ==
    \/ ValidatePeriod
    \/ CheckFilesExist
    \/ ReadAndPrepare
    \/ CreateComparisonChart
    \/ CompareFinish

Spec == Init /\ [][Next]_vars

----------------------------------------------------------------------------
(* Vocabulary of the properties, defined apart from the operators above *)

\* The rows of a file with the given stock code, in file order.
RECURSIVE Matching(_, _)
Matching(rows, code) ==
    IF rows = <<>> THEN <<>>
    ELSE IF Head(rows).stock_code = code
         THEN <<Head(rows)>> \o Matching(Tail(rows), code)
         ELSE Matching(Tail(rows), code)

\* The comparison records of a sequence of raw rows whose dates all parse.
RECURSIVE Tagged(_, _)
Tagged(rows, tag) ==
    IF rows = <<>> THEN <<>>
    ELSE <<[trade_date |-> ParseDate(Head(rows).trade_date),
            close |-> Head(rows).close, type |-> tag]>> \o Tagged(Tail(rows), tag)

Group(table, tag) == SelectSeq(table, LAMBDA r : r.type = tag)

DatesOf(table) == [i \in 1..Len(table) |-> table[i].trade_date]

NonDecreasing(dates) ==
    \A i \in 1..Len(dates), j \in 1..Len(dates) : i < j => dates[i] <= dates[j]

HasBadDate(rows) == \E i \in 1..Len(rows) : ~Parseable(rows[i].trade_date)

Writes == SelectSeq(io, LAMBDA e : e.op = "write")

EntryPoint == call = "compare_stock_data"

LoaderInvoked == \E i \in 1..Len(calls) : calls[i] = "load_and_prepare_data"

RendererInvoked == \E i \in 1..Len(calls) : calls[i] = "create_comparison_chart"

\* The loader has run to its end: it returned a table or raised.
LoadEnded == EntryPoint /\ LoaderInvoked /\ pc \in {"raised", "render", "finish", "returned"}

LoadReturned == LoadEnded /\ pc # "raised"

LoadRaised == LoadEnded /\ pc = "raised"

\* The loader came to an end after reading both files.
FilesRead == LoadEnded /\ Len(io) >= 4

SchemaComplete == df_processed.columns = AllColumns /\ df_unprocessed.columns = AllColumns

MatchingProcessed == Matching(df_processed.rows, stock_code)

MatchingUnprocessed == Matching(df_unprocessed.rows, stock_code)

----------------------------------------------------------------------------
(* Properties *)

\* C1: a successful load returns exactly the rows of the unprocessed file with
\* the requested stock code, in file order and tagged RAW, followed by exactly
\* the rows of the processed file with that code, in file order and tagged
\* PROCESSED; the length is the sum of the two numbers of matching rows.
C1_LoadReturnsMatchingRows ==
    LoadReturned =>
        /\ df_combined = Tagged(MatchingUnprocessed, "RAW")
                            \o Tagged(MatchingProcessed, "PROCESSED")
        /\ Len(df_combined) = Len(MatchingUnprocessed) + Len(MatchingProcessed)

C1_Witness ==
    /\ LoadReturned
    /\ Len(df_combined) = 3
    /\ Len(df_processed.rows) + Len(df_unprocessed.rows) = 4
    /\ df_combined[1].close # df_combined[2].close
    /\ df_combined[2].type = "RAW" /\ df_combined[3].type = "PROCESSED"

\* C2 as stated: in the table a successful load returns, the records of each
\* provenance group are in non-decreasing trade_date order.
C2_SortedByDateWithinGroup ==
    LoadReturned =>
        /\ NonDecreasing(DatesOf(Group(df_combined, "RAW")))
        /\ NonDecreasing(DatesOf(Group(df_combined, "PROCESSED")))

\* C2 amended: the table is ordered by provenance only (no PROCESSED record
\* precedes a RAW one); within a group the dates come in the order of the
\* file's matching rows, so a group is in non-decreasing date order exactly
\* when the matching rows of its file are.
C2_ProvenanceThenFileOrder ==
    LoadReturned =>
        /\ \A i \in 1..Len(df_combined), j \in 1..Len(df_combined) :
              i < j => ~(df_combined[i].type = "PROCESSED" /\ df_combined[j].type = "RAW")
        /\ DatesOf(Group(df_combined, "RAW")) = DatesOf(Tagged(MatchingUnprocessed, "RAW"))
        /\ DatesOf(Group(df_combined, "PROCESSED"))
              = DatesOf(Tagged(MatchingProcessed, "PROCESSED"))
        /\ NonDecreasing(DatesOf(Group(df_combined, "RAW")))
              <=> NonDecreasing(DatesOf(Tagged(MatchingUnprocessed, "RAW")))
        /\ NonDecreasing(DatesOf(Group(df_combined, "PROCESSED")))
              <=> NonDecreasing(DatesOf(Tagged(MatchingProcessed, "PROCESSED")))

C2_Witness ==
    /\ LoadReturned
    /\ Len(Group(df_combined, "RAW")) = 2
    /\ df_combined[1].trade_date > df_combined[2].trade_date

\* C3: a run of the entry point with a period label outside the two recognized
\* values fails at the period check with a ValueError; no file is tested for
\* existence, read or written, and neither the loader nor the renderer is
\* invoked.
C3_InvalidPeriodFailsBeforeIO ==
    (EntryPoint /\ period_type \notin {"weekly", "daily"}) =>
        /\ pc \in {"validate", "raised"}
        /\ io = <<>>
        /\ calls = <<"compare_stock_data">>
        /\ chart = NoChart
        /\ pc = "raised" => (err.site = "period" /\ err.cls = "ValueError")

C3_Witness ==
    /\ EntryPoint
    /\ period_type = "monthly"
    /\ pc = "raised"
    /\ err.site = "period"

\* C4: a run of the entry point that ends in failure produces no chart and
\* writes no file, and the renderer is invoked only after the loader has
\* returned a table without raising.
C4_FailureLeavesNoChartNoFile ==
    EntryPoint =>
        /\ pc = "raised" => (chart = NoChart /\ Writes = <<>> /\ ~RendererInvoked)
        /\ (pc = "render" \/ RendererInvoked) =>
              (err = NoError /\ LoaderInvoked /\ Len(io) >= 4 /\ df_combined # <<>>)

C4_Witness ==
    /\ EntryPoint
    /\ pc = "raised"
    /\ err.site = "stock"
    /\ Len(io) = 4

\* C5: when the processed path or the unprocessed path does not exist, load
\* fails with FileNotFoundError naming the first missing file, before either
\* file is read, and returns no table.
C5_MissingFileNotFound ==
    (LoaderInvoked /\ pc # "exists" /\ (~present["processed"] \/ ~present["unprocessed"])) =>
        /\ pc = "raised"
        /\ err.cls = "FileNotFoundError"
        /\ err.name = IF ~present["processed"] THEN "processed" ELSE "unprocessed"
        /\ df_combined = <<>>
        /\ \A i \in 1..Len(io) : io[i].op = "exists"

C5_Witness ==
    /\ LoadRaised
    /\ err.site = "file"
    /\ present["processed"]
    /\ ~present["unprocessed"]

\* C6 as stated: with both files there and complete, a stock code that matches
\* no row of the processed or of the unprocessed file makes load fail with the
\* error kind of a missing file, identifying the source and the code.
C6_NoRowsIsNotFoundError ==
    (FilesRead /\ SchemaComplete /\ (MatchingProcessed = <<>> \/ MatchingUnprocessed = <<>>)) =>
        /\ pc = "raised"
        /\ err.cls = ErrorClass("file")
        /\ err.stock_code = stock_code
        /\ err.name = IF MatchingProcessed = <<>> THEN "processed" ELSE "unprocessed"

\* C6 amended: in that case load fails with a ValueError, the class of the
\* missing-column and invalid-period errors and not the FileNotFoundError of a
\* missing file; the error identifies the code and the source (the processed
\* one when neither file has a row), and no table is returned.
C6_NoRowsIsValueError ==
    (FilesRead /\ SchemaComplete /\ (MatchingProcessed = <<>> \/ MatchingUnprocessed = <<>>)) =>
        /\ pc = "raised"
        /\ err.site = "stock"
        /\ err.cls = "ValueError"
        /\ err.cls = ErrorClass("columns") /\ err.cls = ErrorClass("period")
        /\ err.cls # ErrorClass("file")
        /\ err.stock_code = stock_code
        /\ err.name = IF MatchingProcessed = <<>> THEN "processed" ELSE "unprocessed"
        /\ df_combined = <<>>

C6_Witness ==
    /\ LoadRaised
    /\ err.site = "stock"
    /\ err.name = "unprocessed"
    /\ MatchingProcessed # <<>>

\* C7 as stated: with both files there, a source that lacks a required column
\* makes load fail with an error kind distinct from those of a missing file,
\* of no rows for the code, of an unparseable date and of an invalid period,
\* naming the file and all of its missing columns.
C7_MissingColumnIsDistinctKind ==
    (FilesRead /\ ~SchemaComplete) =>
        /\ pc = "raised"
        /\ err.cls \notin {ErrorClass("file"), ErrorClass("stock"),
                           ErrorClass("date"), ErrorClass("period")}
        /\ err.name \in {"processed", "unprocessed"}

\* C7 amended: in that case load fails with a ValueError, which is distinct
\* from the FileNotFoundError of a missing file but is also the class of the
\* no-rows and invalid-period errors; the error names the first offending file
\* (the processed one when both lack columns) and every required column that
\* file lacks, each once.
C7_MissingColumnIsValueError ==
    (FilesRead /\ ~SchemaComplete) =>
        LET offending == IF df_processed.columns # AllColumns
                         THEN df_processed ELSE df_unprocessed
        IN  /\ pc = "raised"
            /\ err.site = "columns"
            /\ err.cls = "ValueError"
            /\ err.cls # ErrorClass("file")
            /\ err.cls = ErrorClass("stock") /\ err.cls = ErrorClass("period")
            /\ err.name = IF df_processed.columns # AllColumns
                          THEN "processed" ELSE "unprocessed"
            /\ {err.missing[i] : i \in 1..Len(err.missing)}
                  = {"stock_code", "trade_date", "close"} \ offending.columns
            /\ Len(err.missing) = Cardinality({"stock_code", "trade_date", "close"}
                                                \ offending.columns)
            /\ df_combined = <<>>

C7_Witness ==
    /\ LoadRaised
    /\ err.site = "columns"
    /\ err.name = "unprocessed"
    /\ Len(err.missing) = 2

\* C8: a table returned by load holds at least one RAW record and at least one
\* PROCESSED record, and so does every table the entry point hands to the
\* renderer.
C8_BothGroupsPresent ==
    /\ LoadReturned =>
          (Group(df_combined, "RAW") # <<>> /\ Group(df_combined, "PROCESSED") # <<>>)
    /\ (EntryPoint /\ RendererInvoked) =>
          (Group(chart.data, "RAW") # <<>> /\ Group(chart.data, "PROCESSED") # <<>>)

C8_Witness ==
    /\ EntryPoint
    /\ RendererInvoked
    /\ Len(Group(chart.data, "RAW")) = 1
    /\ Len(Group(chart.data, "PROCESSED")) = 2

\* C9: render writes exactly when an output path is given (None and the empty
\* string give none): then it writes that one path once and reports it; with
\* no path it writes and reports nothing.  Either way it returns the chart of
\* its table and does no other input or output.
C9_RenderWritesIffPathGiven ==
    (chart # NoChart \/ pc \in {"finish", "returned"}) =>
        LET given == output_file # Path("<None>") /\ output_file # Path("")
            saved == SelectSeq(stdout, LAMBDA m : m.text = "saved")
            others == SelectSeq(io, LAMBDA e : e.op # "write")
        IN  /\ chart.data = df_combined
            /\ chart.stock_code = stock_code /\ chart.period_type = period_type
            /\ chart.layers = <<"line", "point">> /\ chart.interactive
            /\ IF given
               THEN /\ Writes = <<[op |-> "write", path |-> output_file]>>
                    /\ io[Len(io)].op = "write"
                    /\ Len(saved) = 1 /\ saved[1].path = output_file
               ELSE Writes = <<>> /\ saved = <<>>
            /\ Len(others) = IF EntryPoint THEN 4 ELSE 0

C9_Witness ==
    /\ call = "create_comparison_chart"
    /\ pc = "returned"
    /\ output_file = Path("<None>")
    /\ chart.data # <<>>
    /\ io = <<>>

\* C10 as stated: whenever a row with the requested code in either file has an
\* unparseable trade_date, load fails with the date-parsing error.
C10_BadDateAlwaysParseError ==
    (FilesRead /\ SchemaComplete
        /\ (HasBadDate(MatchingProcessed) \/ HasBadDate(MatchingUnprocessed))) =>
        /\ pc = "raised"
        /\ err.site = "date"

\* C10 amended: when both files exist, have the required columns and each hold
\* a row with the requested code, load fails with the date-parsing error and
\* returns no table if any row with that code has an unparseable trade_date,
\* and returns every matching row otherwise, whatever the dates of the rows
\* with other codes.
C10_BadDateInRetainedRowsAborts ==
    (FilesRead /\ SchemaComplete /\ MatchingProcessed # <<>> /\ MatchingUnprocessed # <<>>) =>
        IF HasBadDate(MatchingProcessed) \/ HasBadDate(MatchingUnprocessed)
        THEN /\ pc = "raised"
             /\ err.site = "date"
             /\ err.cls = "ParserError"
             /\ err.name = IF HasBadDate(MatchingProcessed) THEN "processed" ELSE "unprocessed"
             /\ df_combined = <<>>
             /\ chart = NoChart
        ELSE /\ pc # "raised"
             /\ err = NoError
             /\ Len(df_combined) = Len(MatchingProcessed) + Len(MatchingUnprocessed)

C10_Witness ==
    /\ LoadRaised
    /\ err.site = "date"
    /\ err.name = "unprocessed"
    /\ HasBadDate(MatchingUnprocessed)
    /\ ~HasBadDate(MatchingProcessed)

====
